---- MODULE Spec2Model ----
(***************************************************************************)
(* A model of the two TCP chat servers of src/unnamed/part_000:            *)
(*   - the chat variant (lines 27-91): a clients Map keyed by socket, a    *)
(*     per-connection username, join / chat / leave broadcasts;            *)
(*   - the heartbeat variant (lines 189-282): a clients array, a 30 s PING *)
(*     interval per socket, a 60 s socket timeout, broadcast plus echo.    *)
(* One behaviour runs one of the two servers; `variant` says which.        *)
(* Each action is one Node.js event handler, run to completion.            *)
(*                                                                         *)
(* Specifications:                                                         *)
(*   Spec          either server, its connections and their events;        *)
(*   SpecFifo      the chat server, with the chat of one sender to one     *)
(*                 recipient kept in the order it is written;              *)
(*   SpecShutdown  the heartbeat server with its SIGINT handler;           *)
(*   SpecCodec     ChatProtocol.pack / unpack of                           *)
(*                 src/ComputerScience/Networking/TCP/TCP.md (181-205).    *)
(*   SpecLines     the chat server fed chunks of two lines and of half a   *)
(*                 line;                                                   *)
(*   SpecDecoder   the accumulating 4-byte decoder of Buffer and Binary    *)
(*                 Operators.md (39-52);                                   *)
(*   SpecListen    the two servers of src/Experiments/TCP/networkProgram.js;*)
(*   SpecPingPong  the heartbeat server and its PING-answering client;     *)
(*   SpecSetup     setupHeartbeat of TCP.md (221-243);                     *)
(*   SpecRooms     the multi-room server of TCP.md (395-456), /join by any *)
(*                 connection;                                             *)
(*   SpecHistory   the same server, one connection joining many times;     *)
(*   SpecPool      ConnectionPool.acquire / release of TCP.md (700-746).   *)
(***************************************************************************)
EXTENDS Integers, Sequences, FiniteSets, TLC

VARIABLES
    variant,    \* "chat" or "hb": which of the two servers is running
    status,     \* per socket: "idle" | "open" | "halfclosed" | "ended" | "destroyed"
    clients,    \* the registry: Map keys in insertion order (chat), array (hb)
    username,   \* chat variant: the closure variable `username` of each connection
    written,    \* per socket: the messages the last handler wrote to it, in order
    attempted,  \* the sockets the last handler called write() on
    heartbeat,  \* hb variant: heartbeatInterval of the socket is still set
    idle,       \* hb variant: heartbeat periods without socket activity
    stalled,    \* hb variant: the peer stopped reading, writes queue in memory
    event,      \* the event whose handler ran last
    sent,       \* order check: the chat lines the followed sender has sent
    stream,     \* order check: that sender's chat texts on the recipient's socket
    toPack,     \* codec: the message to pack, [type, content]
    wire,       \* codec: the bytes of the frame on the wire
    chunks,     \* codec: the chunks of the frame not yet handed to unpack
    emitted,    \* codec: what unpack returned for each buffer it was handed
    codecPc,    \* codec: "off" | "start" | "packed" | "whole" | "split" | "fed"
    listener,   \* the net.Server: "created" | "listening" | "closing" | "exited"
    listens,    \* how many times server.listen has been called
    dataBuffer, \* decoder: the bytes received and not yet cut into a message
    logged,     \* decoder: the 4-byte messages logged so far, in order
    received,   \* decoder: every byte the data events brought, in order
    chunk,      \* decoder: the chunk of the last data event
    clientIn,   \* client: the server's writes to its socket it has not read yet
    clientOut,  \* client: its own writes the server has not read yet
    pingsSent,  \* client: how many PING the server has written to its socket
    pongsSent,  \* client: how many PONG it has written
    awaitingPong,\* setupHeartbeat: the closure variable awaitingPong of each socket
    rooms,       \* rooms: the names of the rooms created, in the order of the Map
    roomClients, \* rooms: the clients Map of each room, keys in insertion order
    messageHistory, \* rooms: the messageHistory array of each room
    currentRoom, \* rooms: the closure variable currentRoom of each connection
    joins,       \* rooms: how many /join commands have run
    connections, \* pool: this.connections, in insertion order
    inUse,       \* pool: the connections whose inUse flag is set
    waiting,     \* pool: this.waiting, the callers whose promise is queued
    caller,      \* pool: per caller "idle" | "creating" | "waiting" | "holding"
    held,        \* pool: per caller the connection acquire() returned to it, 0 for none
    created      \* pool: how many connections createConnection has made

serverVars == <<variant, status, clients, username, written, attempted, heartbeat, idle,
                stalled, event>>
fifoVars == <<sent, stream>>
codecVars == <<toPack, wire, chunks, emitted, codecPc>>

decoderVars == <<dataBuffer, logged, received, chunk>>

clientVars == <<clientIn, clientOut, pingsSent, pongsSent>>

setupVars == <<awaitingPong>>

roomVars == <<rooms, roomClients, messageHistory, currentRoom, joins>>

poolVars == <<connections, inUse, waiting, caller, held, created>>

vars == <<serverVars, fifoVars, codecVars, listener, listens, decoderVars,
         clientVars, setupVars, roomVars, poolVars>>

----------------------------------------------------------------------------
(* Bounds of the model *)

NumSockets == 3   \* connections the server ever accepts

Sockets == 1..NumSockets

----------------------------------------------------------------------------
(* Timers of the heartbeat variant, in milliseconds *)

HeartbeatMs == 30000   \* setInterval(..., 30000)
TimeoutMs == 60000     \* socket.setTimeout(60000)

\* Time is counted in heartbeat periods: the timeout fires after this many
\* periods without activity on the socket
TimeoutPeriods == TimeoutMs \div HeartbeatMs

\* The value of the idle counter once the timeout has fired
TimedOut == TimeoutPeriods + 1

----------------------------------------------------------------------------
(* Text: a string is a sequence of characters *)

IsSpace(c) == c \in {" ", "\n"}

RECURSIVE TrimStart(_)
TrimStart(str) ==
    IF str = <<>> THEN <<>>
    ELSE IF IsSpace(Head(str)) THEN TrimStart(Tail(str))
    ELSE str

RECURSIVE TrimEnd(_)
TrimEnd(str) ==
    IF str = <<>> THEN <<>>
    ELSE IF IsSpace(str[Len(str)]) THEN TrimEnd(SubSeq(str, 1, Len(str) - 1))
    ELSE str

\* data.toString().trim()
Trim(data) == TrimEnd(TrimStart(data))

\* The chunks a peer sends in one data event: a blank line, the name it
\* types at the prompt, a line of chat
BlankLine == <<"\n">>
NameLine(s) == IF s % 2 = 1 THEN <<" ", "a", "\n">> ELSE <<"b", "\n">>
ChatLine == <<" ", "a", "b">>

DataSet == {BlankLine, ChatLine} \cup { NameLine(s) : s \in Sockets }

\* The callers of acquire() and release()
NumCallers == 4
Callers == 1..NumCallers

\* The room names a /join command can carry
RoomNames == {"lobby", "games"}

----------------------------------------------------------------------------
(* Messages the server writes *)

Msg(kind, from, name, text) ==
    [kind |-> kind, from |-> from, name |-> name, text |-> text]

\* "Enter your username: "
PromptMsg == Msg("Prompt", 0, <<>>, <<>>)
\* `${username} has joined the chat`
JoinMsg(s, name) == Msg("Join", s, name, <<>>)
\* `Welcome ${username}! You are now connected.`
WelcomeMsg(s, name) == Msg("Welcome", s, name, <<>>)
\* `${username}: ${message}`
ChatMsg(s, name, text) == Msg("Chat", s, name, text)
\* `${username} has left the chat`
LeaveMsg(s, name) == Msg("Leave", s, name, <<>>)
\* "Invalid message received"
InvalidMsg == Msg("Invalid", 0, <<>>, <<>>)
\* `Broadcast from server: ${dataString}`
BroadcastMsg(s, text) == Msg("Broadcast", s, <<>>, text)
\* `Server received: ${dataString}`
ReceivedMsg(s, text) == Msg("Received", s, <<>>, text)
\* "PING"
PingMsg == Msg("PING", 0, <<>>, <<>>)

----------------------------------------------------------------------------
(* Sockets and the registry *)

Range(seq) == { seq[i] : i \in 1..Len(seq) }

\* What a handler has written when it starts: nothing
NoWrites == [c \in Sockets |-> <<>>]

\* socket.write succeeds while the writable side is open
Writable(st, c) == st[c] = "open"

\* socket.write(m) on every socket of `to`, after the writes of `log`
WriteAll(log, st, to, m) ==
    [c \in Sockets |->
        IF c \in to /\ Writable(st, c) THEN Append(log[c], m) ELSE log[c]]

\* A write that reaches the handle refreshes the idle timer of the socket;
\* a write queued behind a stalled peer does not
Refresh(timer, st, to) ==
    [c \in Sockets |->
        IF c \in to /\ Writable(st, c) /\ ~stalled[c] THEN 0 ELSE timer[c]]

\* clients.set(socket, ...): a Map keeps the position of a key it has
MapSet(m, s) == IF s \in Range(m) THEN m ELSE Append(m, s)

\* clients.delete(socket)
MapDelete(m, s) == SelectSeq(m, LAMBDA x : x # s)

\* clients.indexOf(socket): 0-based, -1 when absent
IndexOf(arr, s) ==
    IF s \in Range(arr)
    THEN (CHOOSE i \in 1..Len(arr) :
             arr[i] = s /\ \A j \in 1..(i - 1) : arr[j] # s) - 1
    ELSE -1

\* clients.splice(start, 1): a negative start counts from the end
Splice(arr, start) ==
    LET from == IF start < 0
                THEN (IF Len(arr) + start < 0 THEN 0 ELSE Len(arr) + start)
                ELSE (IF start > Len(arr) THEN Len(arr) ELSE start)
    IN  SubSeq(arr, 1, from) \o SubSeq(arr, from + 2, Len(arr))

\* broadcast(message) called without a sender: no socket is excluded
NoSender == 0

\* broadcast without the `client !== sender` test
BroadcastTargetsNoExclusion(m, sender) == Range(m)

\* broadcast(message, sender): every key of the Map but the sender
BroadcastTargets(m, sender) == { c \in Range(m) : c # sender }

\* client.write(...) inside the loop, with the 'error' handler of a failed
\* write run before the write returns: the failed client's entry is spliced
\* out while the loop is still going
AfterWriteSpliced(arr, client) ==
    IF Writable(status, client) THEN arr ELSE Splice(arr, IndexOf(arr, client))

\* The array after client.write(...) inside the loop: write never touches
\* `clients`; the 'error' event of a failed write is emitted on a later tick
AfterWrite(arr, client) == arr

\* clients.forEach(client => if (client !== socket) client.write(...)): the
\* clients written to, in order. forEach reads the length once and visits the
\* indexes k = 0 .. len-1 that are still in the array when it gets to them
RECURSIVE ForEach(_, _, _, _)
ForEach(arr, socket, k, len) ==
    IF k >= len THEN <<>>
    ELSE IF k >= Len(arr) THEN ForEach(arr, socket, k + 1, len)
    ELSE LET client == arr[k + 1] IN
         IF client # socket
         THEN <<client>> \o ForEach(AfterWrite(arr, client), socket, k + 1, len)
         ELSE ForEach(arr, socket, k + 1, len)

\* The sockets the forEach loop of a data event on `socket` writes to
ForEachTargets(arr, socket) == Range(ForEach(arr, socket, 0, Len(arr)))

\* The loop gives up at the first client.write that fails
RECURSIVE WriteEachAbort(_, _, _, _)
WriteEachAbort(log, st, visits, m) ==
    IF visits = <<>> \/ ~Writable(st, Head(visits)) THEN log
    ELSE WriteEachAbort(WriteAll(log, st, {Head(visits)}, m), st, Tail(visits), m)

\* client.write(m) once per visit of the loop, in the order of the visits; a
\* write that fails does not throw and the loop goes on
RECURSIVE WriteEach(_, _, _, _)
WriteEach(log, st, visits, m) ==
    IF visits = <<>> THEN log
    ELSE WriteEach(WriteAll(log, st, {Head(visits)}, m), st, Tail(visits), m)

\* The event a handler ran for: its name, its socket, the chunk of a data
\* event, and whether the connection had a username when the handler started
Ev(op, s, d, named) == [op |-> op, socket |-> s, data |-> d, named |-> named]

\* Socket s is the s-th connection the server accepts
NextToAccept(s) == \A t \in Sockets : t < s => status[t] # "idle"

----------------------------------------------------------------------------
(* Initial state: a server that has accepted no connection *)

\* The server right after listen(): no connection yet
ServerStart ==
    /\ status = [s \in Sockets |-> "idle"]
    /\ clients = <<>>
    /\ username = [s \in Sockets |-> <<>>]
    /\ written = NoWrites
    /\ attempted = {}
    /\ heartbeat = [s \in Sockets |-> FALSE]
    /\ idle = [s \in Sockets |-> 0]
    /\ stalled = [s \in Sockets |-> FALSE]
    /\ event = Ev("listen", 0, <<>>, FALSE)

\* server.listen(3000, ...) at the end of the script
Listening == listener = "listening" /\ listens = 1

\* Nothing is followed
FifoOff == sent = 0 /\ stream = <<>>

\* ChatProtocol is not in use
CodecOff ==
    /\ toPack = [type |-> 0, content |-> <<>>]
    /\ wire = <<>>
    /\ chunks = <<>>
    /\ emitted = <<>>
    /\ codecPc = "off"

\* The 4-byte decoder is not in use
DecoderOff ==
    /\ dataBuffer = <<>>
    /\ logged = <<>>
    /\ received = <<>>
    /\ chunk = <<>>

\* No client is followed
ClientOff ==
    /\ clientIn = <<>>
    /\ clientOut = <<>>
    /\ pingsSent = 0
    /\ pongsSent = 0

\* setupHeartbeat has been called for no socket
SetupOff ==
    /\ awaitingPong = [s \in Sockets |-> FALSE]

\* The multi-room server has no room and no connection
RoomsOff ==
    /\ rooms = <<>>
    /\ roomClients = [r \in RoomNames |-> <<>>]
    /\ messageHistory = [r \in RoomNames |-> <<>>]
    /\ currentRoom = [s \in Sockets |-> "null"]
    /\ joins = 0

\* The connection pool is empty and nobody has called acquire
PoolOff ==
    /\ connections = <<>>
    /\ inUse = {}
    /\ waiting = <<>>
    /\ caller = [c \in Callers |-> "idle"]
    /\ held = [c \in Callers |-> 0]
    /\ created = 0

Init ==
    /\ variant \in {"chat", "hb"}
    /\ ServerStart
    /\ FifoOff
    /\ CodecOff
    /\ DecoderOff
    /\ ClientOff
    /\ SetupOff
    /\ RoomsOff
    /\ PoolOff
    /\ Listening

----------------------------------------------------------------------------
(* Chat variant *)

\* if (!username), if (username): the empty string is falsy
HasName(s) == username[s] # <<>>

\* What the peer of s sends next: until the server has a username for it a
\* blank line or its name, afterwards a blank line or a line of chat
Input(s) == IF HasName(s) THEN {BlankLine, ChatLine} ELSE {BlankLine, NameLine(s)}

\* net.createServer callback: prompt for the username
ChatConnect(s) ==
    /\ event' = Ev("connect", s, <<>>, HasName(s))
    /\ variant = "chat"
    /\ status[s] = "idle"
    /\ NextToAccept(s)
    /\ status' = [status EXCEPT ![s] = "open"]
    /\ written' = WriteAll(NoWrites, status', {s}, PromptMsg)
    /\ attempted' = {s}
    /\ UNCHANGED <<variant, clients, username, heartbeat, idle, stalled>>

\* The username branch of socket.on("data"): name, register, announce, welcome
ChatSetName(s, message) ==
    /\ username' = [username EXCEPT ![s] = message]
    /\ clients' = MapSet(clients, s)
    /\ written' = WriteAll(
                     WriteAll(NoWrites, status, BroadcastTargets(clients', NoSender),
                              JoinMsg(s, message)),
                     status, {s}, WelcomeMsg(s, message))
    /\ attempted' = BroadcastTargets(clients', NoSender) \cup {s}

\* The chat branch of socket.on("data"): broadcast to everyone but the sender
ChatForward(s, message) ==
    /\ written' = WriteAll(NoWrites, status, BroadcastTargets(clients, s),
                           ChatMsg(s, username[s], message))
    /\ attempted' = BroadcastTargets(clients, s)
    /\ UNCHANGED <<username, clients>>

\* socket.on("data")
ChatData(s, d) ==
    /\ event' = Ev("data", s, d, HasName(s))
    /\ variant = "chat"
    /\ status[s] = "open"
    /\ IF ~HasName(s) THEN ChatSetName(s, Trim(d)) ELSE ChatForward(s, Trim(d))
    /\ UNCHANGED <<variant, status, heartbeat, idle, stalled>>

\* The body of socket.on("end") with the departure broadcast left out
ChatLeaveSilent(s) ==
    /\ written' = NoWrites
    /\ attempted' = {}
    /\ clients' = MapDelete(clients, s)

\* The body of socket.on("end") for a connection that has a username
ChatLeave(s) ==
    /\ written' = WriteAll(NoWrites, status', BroadcastTargets(clients, NoSender),
                           LeaveMsg(s, username[s]))
    /\ attempted' = BroadcastTargets(clients, NoSender)
    /\ clients' = MapDelete(clients, s)

\* socket.on("end") without the `if (username)` guard
ChatEndUnguarded(s) ==
    /\ event' = Ev("end", s, <<>>, HasName(s))
    /\ variant = "chat"
    /\ status[s] = "open"
    /\ status' = [status EXCEPT ![s] = "ended"]
    /\ ChatLeave(s)
    /\ UNCHANGED <<variant, username, heartbeat, idle, stalled>>

\* socket.on("end"): the peer sent FIN; the socket ends its own side too
ChatEnd(s) ==
    /\ event' = Ev("end", s, <<>>, HasName(s))
    /\ variant = "chat"
    /\ status[s] = "open"
    /\ status' = [status EXCEPT ![s] = "ended"]
    /\ IF HasName(s)
       THEN ChatLeave(s)
       ELSE written' = NoWrites /\ attempted' = {} /\ UNCHANGED clients
    /\ UNCHANGED <<variant, username, heartbeat, idle, stalled>>

\* socket.on("error") announcing the departure as socket.on("end") does
ChatErrorAnnounces(s) ==
    /\ event' = Ev("error", s, <<>>, HasName(s))
    /\ variant = "chat"
    /\ status[s] \in {"open", "ended"}
    /\ status' = [status EXCEPT ![s] = "destroyed"]
    /\ IF HasName(s)
       THEN ChatLeave(s)
       ELSE written' = NoWrites /\ attempted' = {} /\ clients' = MapDelete(clients, s)
    /\ UNCHANGED <<variant, username, heartbeat, idle, stalled>>

\* socket.on("error"): the socket is destroyed after the handler
ChatError(s) ==
    /\ event' = Ev("error", s, <<>>, HasName(s))
    /\ variant = "chat"
    /\ status[s] \in {"open", "ended"}
    /\ status' = [status EXCEPT ![s] = "destroyed"]
    /\ clients' = MapDelete(clients, s)
    /\ written' = NoWrites
    /\ attempted' = {}
    /\ UNCHANGED <<variant, username, heartbeat, idle, stalled>>

----------------------------------------------------------------------------
(* Heartbeat variant *)

\* net.createServer callback: register, start the PING interval, arm the timeout
HBConnect(s) ==
    /\ event' = Ev("connect", s, <<>>, FALSE)
    /\ variant = "hb"
    /\ status[s] = "idle"
    /\ NextToAccept(s)
    /\ status' = [status EXCEPT ![s] = "open"]
    /\ clients' = Append(clients, s)
    /\ heartbeat' = [heartbeat EXCEPT ![s] = TRUE]
    /\ idle' = [idle EXCEPT ![s] = 0]
    /\ written' = NoWrites
    /\ attempted' = {}
    /\ UNCHANGED <<variant, username, stalled>>

\* socket.on("data") without the `if (!dataString)` branch
HBDataUnvalidated(s, d) ==
    /\ event' = Ev("data", s, d, FALSE)
    /\ variant = "hb"
    /\ status[s] \in {"open", "halfclosed"}
    /\ LET dataString == Trim(d) IN
       /\ written' = WriteAll(
                        WriteEach(NoWrites, status,
                                  ForEach(clients, s, 0, Len(clients)),
                                  BroadcastMsg(s, dataString)),
                        status, {s}, ReceivedMsg(s, dataString))
       /\ attempted' = ForEachTargets(clients, s) \cup {s}
       /\ idle' = Refresh([idle EXCEPT ![s] = 0], status,
                          ForEachTargets(clients, s) \cup {s})
    /\ UNCHANGED <<variant, status, clients, username, heartbeat, stalled>>

\* socket.on("data"): validate, broadcast to the others, echo to the sender
HBData(s, d) ==
    /\ event' = Ev("data", s, d, FALSE)
    /\ variant = "hb"
    /\ status[s] \in {"open", "halfclosed"}
    /\ LET dataString == Trim(d) IN
       IF Len(dataString) = 0
       THEN /\ written' = WriteAll(NoWrites, status, {s}, InvalidMsg)
            /\ attempted' = {s}
            /\ idle' = Refresh([idle EXCEPT ![s] = 0], status, {s})
       ELSE /\ written' = WriteAll(
                             WriteEach(NoWrites, status,
                                       ForEach(clients, s, 0, Len(clients)),
                                       BroadcastMsg(s, dataString)),
                             status, {s}, ReceivedMsg(s, dataString))
            /\ attempted' = ForEachTargets(clients, s) \cup {s}
            /\ idle' = Refresh([idle EXCEPT ![s] = 0], status,
                               ForEachTargets(clients, s) \cup {s})
    /\ UNCHANGED <<variant, status, clients, username, heartbeat, stalled>>

\* clearInterval(heartbeatInterval); clients.splice(clients.indexOf(socket), 1)
HBCleanup(s) ==
    /\ heartbeat' = [heartbeat EXCEPT ![s] = FALSE]
    /\ clients' = Splice(clients, IndexOf(clients, s))

\* socket.on("end"): the peer sent FIN; the socket ends its own side too and
\* nothing writes to it or waits on its timer any more
HBEnd(s) ==
    /\ event' = Ev("end", s, <<>>, FALSE)
    /\ variant = "hb"
    /\ status[s] \in {"open", "halfclosed"}
    /\ status' = [status EXCEPT ![s] = "ended"]
    /\ HBCleanup(s)
    /\ idle' = [idle EXCEPT ![s] = 0]
    /\ stalled' = [stalled EXCEPT ![s] = FALSE]
    /\ written' = NoWrites
    /\ attempted' = {}
    /\ UNCHANGED <<variant, username>>

\* socket.on("error"): the socket is destroyed after the handler
HBError(s) ==
    /\ event' = Ev("error", s, <<>>, FALSE)
    /\ variant = "hb"
    /\ status[s] \in {"open", "halfclosed", "ended"}
    /\ status' = [status EXCEPT ![s] = "destroyed"]
    /\ HBCleanup(s)
    /\ idle' = [idle EXCEPT ![s] = 0]
    /\ stalled' = [stalled EXCEPT ![s] = FALSE]
    /\ written' = NoWrites
    /\ attempted' = {}
    /\ UNCHANGED <<variant, username>>

\* The setInterval callback, 30 s after the last one: socket.write("PING")
HBPing(s) ==
    /\ event' = Ev("ping", s, <<>>, FALSE)
    /\ variant = "hb"
    /\ heartbeat[s]
    /\ written' = WriteAll(NoWrites, status, {s}, PingMsg)
    /\ attempted' = {s}
    /\ idle' = Refresh([idle EXCEPT ![s] = IF @ < TimeoutPeriods THEN @ + 1 ELSE @], status, {s})
    /\ UNCHANGED <<variant, status, clients, username, heartbeat, stalled>>

\* socket.setTimeout(60000) expired; socket.on("timeout"): socket.end()
HBTimeout(s) ==
    /\ event' = Ev("timeout", s, <<>>, FALSE)
    /\ variant = "hb"
    /\ status[s] \in {"open", "halfclosed"}
    /\ idle[s] = TimeoutPeriods
    /\ idle' = [idle EXCEPT ![s] = TimedOut]
    /\ status' = [status EXCEPT ![s] = "halfclosed"]
    /\ written' = NoWrites
    /\ attempted' = {}
    /\ UNCHANGED <<variant, clients, username, heartbeat, stalled>>

\* The peer stops reading: the server's writes to it queue in memory
Stall(s) ==
    /\ event' = Ev("stall", s, <<>>, FALSE)
    /\ variant = "hb"
    /\ status[s] = "open"
    /\ ~stalled[s]
    /\ stalled' = [stalled EXCEPT ![s] = TRUE]
    /\ written' = NoWrites
    /\ attempted' = {}
    /\ UNCHANGED <<variant, status, clients, username, heartbeat, idle>>

\* The peer reads again: the queued writes reach the handle
Resume(s) ==
    /\ event' = Ev("resume", s, <<>>, FALSE)
    /\ variant = "hb"
    /\ status[s] = "open"
    /\ stalled[s]
    /\ stalled' = [stalled EXCEPT ![s] = FALSE]
    /\ idle' = [idle EXCEPT ![s] = 0]
    /\ written' = NoWrites
    /\ attempted' = {}
    /\ UNCHANGED <<variant, status, clients, username, heartbeat>>

----------------------------------------------------------------------------
(* Both variants: an ended socket is released once both directions are done *)

Close(s) ==
    /\ event' = Ev("close", s, <<>>, FALSE)
    /\ status[s] = "ended"
    /\ status' = [status EXCEPT ![s] = "destroyed"]
    /\ idle' = [idle EXCEPT ![s] = 0]
    /\ stalled' = [stalled EXCEPT ![s] = FALSE]
    /\ written' = NoWrites
    /\ attempted' = {}
    /\ UNCHANGED <<variant, clients, username, heartbeat>>

----------------------------------------------------------------------------

\* A step of the server alone
OnlyServer == UNCHANGED <<fifoVars, codecVars, listener, listens, decoderVars, clientVars, setupVars, roomVars, poolVars>>

Next ==
    \E s \in Sockets :
        \/ ChatConnect(s) /\ OnlyServer
        \/ \E d \in Input(s) : ChatData(s, d) /\ OnlyServer
        \/ ChatEnd(s) /\ OnlyServer
        \/ ChatError(s) /\ OnlyServer
        \/ HBConnect(s) /\ OnlyServer
        \/ \E d \in Input(s) : HBData(s, d) /\ OnlyServer
        \/ HBEnd(s) /\ OnlyServer
        \/ HBError(s) /\ OnlyServer
        \/ HBPing(s) /\ OnlyServer
        \/ HBTimeout(s) /\ OnlyServer
        \/ Stall(s) /\ OnlyServer
        \/ Resume(s) /\ OnlyServer
        \/ Close(s) /\ OnlyServer

Spec == Init /\ [][Next]_vars

----------------------------------------------------------------------------
(* The chat server with one sender-recipient pair followed: the sender
   numbers its chat lines, and what the server writes of them to the
   recipient's socket is kept in order *)

MaxChats == 2   \* chat lines the followed sender sends

\* The followed pair: the first two connections accepted. A connection takes
\* part in broadcasts from the moment it has a name, however early it was
\* accepted, so either of the two can be the first to join or to leave
Sender == 1
Recipient == 2

Digits == <<"1", "2", "3", "4", "5", "6", "7", "8", "9">>

\* The n-th line of chat the followed sender types
NumberedLine(n) == <<Digits[n], "\n">>

\* The number of a numbered chat text
Number(text) == CHOOSE n \in 1..Len(Digits) : text = <<Digits[n]>>

\* The order of the bytes on a socket with the writes made in the reverse of
\* the order of the calls
DeliverReversed(log, msgs) == msgs \o log

\* client.write(message): the bytes go on the socket after those of all
\* earlier writes, and TCP delivers them in that order
Deliver(log, msgs) == log \o msgs

\* The texts of the chat messages of sender s among msgs, in order
ChatsFrom(msgs, s) ==
    LET chats == SelectSeq(msgs, LAMBDA m : m.kind = "Chat" /\ m.from = s)
    IN  [i \in 1..Len(chats) |-> chats[i].text]

\* What the handler that just ran adds to the followed stream and count
FifoLog ==
    /\ stream' = Deliver(stream, ChatsFrom(written'[Recipient], Sender))
    /\ sent' = IF event'.op = "data" /\ event'.socket = Sender /\ event'.named
               THEN sent + 1 ELSE sent
    /\ UNCHANGED <<codecVars, listener, listens, decoderVars, clientVars, setupVars, roomVars, poolVars>>

\* What the peer of s sends next: the followed sender numbers its chat lines
FifoInput(s) ==
    IF s = Sender /\ HasName(s)
    THEN { NumberedLine(n) : n \in { m \in {sent + 1} : m <= MaxChats } }
    ELSE Input(s)

InitFifo ==
    /\ variant = "chat"
    /\ ServerStart
    /\ sent = 0
    /\ stream = <<>>
    /\ CodecOff
    /\ DecoderOff
    /\ ClientOff
    /\ SetupOff
    /\ RoomsOff
    /\ PoolOff
    /\ Listening

NextFifo ==
    \E s \in Sockets :
        \/ ChatConnect(s) /\ FifoLog
        \/ \E d \in FifoInput(s) : ChatData(s, d) /\ FifoLog
        \/ ChatEnd(s) /\ FifoLog
        \/ ChatError(s) /\ FifoLog
        \/ variant = "chat" /\ Close(s) /\ FifoLog

SpecFifo == InitFifo /\ [][NextFifo]_vars

----------------------------------------------------------------------------
(* The heartbeat server with its shutdown handler *)

\* process.on("SIGINT"): server.close(callback). The server stops listening;
\* the connections it has are left as they are
Sigint ==
    /\ variant = "hb"
    /\ listener = "listening"
    /\ listener' = "closing"
    /\ event' = Ev("sigint", 0, <<>>, FALSE)
    /\ written' = NoWrites
    /\ attempted' = {}
    /\ UNCHANGED <<variant, status, clients, username, heartbeat, idle, stalled>>

\* The callback of server.close, called once the server has stopped listening
\* and every connection it accepted is closed: process.exit(0)
ServerClosed ==
    /\ variant = "hb"
    /\ listener = "closing"
    /\ \A s \in Sockets : status[s] \in {"idle", "destroyed"}
    /\ listener' = "exited"
    /\ event' = Ev("exit", 0, <<>>, FALSE)
    /\ written' = NoWrites
    /\ attempted' = {}
    /\ UNCHANGED <<variant, status, clients, username, heartbeat, idle, stalled>>

\* A handler of a connection runs while the process does
Running == listener # "exited" /\ UNCHANGED <<fifoVars, codecVars, listener, listens, decoderVars, clientVars, setupVars, roomVars, poolVars>>

InitShutdown ==
    /\ variant = "hb"
    /\ ServerStart
    /\ FifoOff
    /\ CodecOff
    /\ DecoderOff
    /\ ClientOff
    /\ SetupOff
    /\ RoomsOff
    /\ PoolOff
    /\ Listening

NextShutdown ==
    \/ \E s \in Sockets :
        \/ listener = "listening" /\ HBConnect(s) /\ Running
        \/ \E d \in Input(s) : HBData(s, d) /\ Running
        \/ HBEnd(s) /\ Running
        \/ HBError(s) /\ Running
        \/ HBPing(s) /\ Running
        \/ HBTimeout(s) /\ Running
        \/ Stall(s) /\ Running
        \/ Resume(s) /\ Running
        \/ Close(s) /\ Running
    \/ Sigint /\ UNCHANGED <<fifoVars, codecVars, listens, decoderVars, clientVars, setupVars, roomVars, poolVars>>
    \/ ServerClosed /\ UNCHANGED <<fifoVars, codecVars, listens, decoderVars, clientVars, setupVars, roomVars, poolVars>>

SpecShutdown == InitShutdown /\ [][NextShutdown]_vars

----------------------------------------------------------------------------
(* ChatProtocol: [1 byte: type][4 bytes: length][...content]. A buffer is a
   sequence of bytes, a string a sequence of UTF-16 code units *)

MaxContentLen == 2   \* code units of the content of a message

\* The characters of the contents: "a" (one byte in UTF-8) and e with acute
\* accent (two bytes)
CodeUnits == {97, 233}

\* U+FFFD, what toString() puts in place of bytes that are not UTF-8
Replacement == 65533

\* 1: Chat message, 2: System message, 3: Private message
MessageTypes == 1..3

Contents == UNION { [1..n -> CodeUnits] : n \in 0..MaxContentLen }

\* Buffer.from(content) of one character
Utf8(c) ==
    IF c < 128 THEN <<c>>
    ELSE IF c < 2048 THEN <<192 + (c \div 64), 128 + (c % 64)>>
    ELSE <<224 + (c \div 4096), 128 + ((c \div 64) % 64), 128 + (c % 64)>>

\* Buffer.from(content): the UTF-8 bytes of the string
RECURSIVE BufferFrom(_)
BufferFrom(content) ==
    IF content = <<>> THEN <<>>
    ELSE Utf8(Head(content)) \o BufferFrom(Tail(content))

IsContinuation(b) == b >= 128 /\ b < 192

\* buffer.toString(): UTF-8 decoding; a byte that starts no well-formed
\* sequence, or a sequence cut short, becomes U+FFFD
RECURSIVE BufferToString(_)
BufferToString(bytes) ==
    IF bytes = <<>> THEN <<>>
    ELSE LET b == Head(bytes)
             n == Len(bytes)
         IN  IF b < 128 THEN <<b>> \o BufferToString(Tail(bytes))
             ELSE IF b >= 194 /\ b < 224 /\ n >= 2 /\ IsContinuation(bytes[2])
             THEN <<(b - 192) * 64 + (bytes[2] - 128)>>
                      \o BufferToString(SubSeq(bytes, 3, n))
             ELSE IF b >= 224 /\ b < 240 /\ n >= 3
                        /\ IsContinuation(bytes[2]) /\ IsContinuation(bytes[3])
             THEN <<(b - 224) * 4096 + (bytes[2] - 128) * 64 + (bytes[3] - 128)>>
                      \o BufferToString(SubSeq(bytes, 4, n))
             ELSE IF b >= 224 /\ b < 240 /\ n >= 2 /\ IsContinuation(bytes[2])
             THEN <<Replacement>> \o BufferToString(SubSeq(bytes, 3, n))
             ELSE <<Replacement>> \o BufferToString(Tail(bytes))

\* lengthBuffer.writeUInt32BE(n)
WriteUInt32BE(n) ==
    <<(n \div 16777216) % 256, (n \div 65536) % 256, (n \div 256) % 256, n % 256>>

\* An unsigned 32-bit number read from a buffer, kept as its two 16-bit
\* halves: it can be larger than the integers Len and SubSeq work with
UInt32(n) == [hi |-> n \div 65536, lo |-> n % 65536]

\* u > n, for a length n of a buffer (below 65536)
Above(u, n) == u.hi > 0 \/ u.lo > n

\* buffer.readUInt32BE(offset)
ReadUInt32BE(buffer, offset) ==
    [hi |-> buffer[offset + 1] * 256 + buffer[offset + 2],
     lo |-> buffer[offset + 3] * 256 + buffer[offset + 4]]

\* buffer.slice(start, end): both ends are clamped to the buffer
Slice(buffer, start, end) ==
    SubSeq(buffer, start + 1, IF end > Len(buffer) THEN Len(buffer) ELSE end)

\* What unpack gives back: { type, content }, or the RangeError a read
\* outside the buffer throws
Unpacked(type, content) == [kind |-> "message", type |-> type, content |-> content]
RangeError == [kind |-> "RangeError", type |-> 0, content |-> <<>>]

\* ChatProtocol.pack(type, content), for a type that fits one byte (writeUInt8
\* throws for any other) and a content that is a string
pack(type, content) ==
    <<type>> \o WriteUInt32BE(Len(content)) \o BufferFrom(content)

\* ChatProtocol.unpack(buffer)
unpack(buffer) ==
    IF Len(buffer) < 1 THEN RangeError
    ELSE IF Len(buffer) < 5 THEN RangeError
    ELSE LET type == buffer[1]
             length == ReadUInt32BE(buffer, 1)
             end == IF Above(length, Len(buffer)) THEN 5 + Len(buffer)
                    ELSE 5 + length.lo
         IN  Unpacked(type, BufferToString(Slice(buffer, 5, end)))

InitCodec ==
    /\ variant = "chat"
    /\ ServerStart
    /\ FifoOff
    /\ toPack \in [type : MessageTypes, content : Contents]
    /\ wire = <<>>
    /\ chunks = <<>>
    /\ emitted = <<>>
    /\ codecPc = "start"
    /\ Listening
    /\ DecoderOff
    /\ ClientOff
    /\ SetupOff
    /\ RoomsOff
    /\ PoolOff

\* The sender packs the message
Pack ==
    /\ codecPc = "start"
    /\ wire' = pack(toPack.type, toPack.content)
    /\ codecPc' = "packed"
    /\ UNCHANGED <<toPack, chunks, emitted>>

\* The length field of the frame arrives garbled, or was forged: it declares
\* n bytes of content
Declare(n) ==
    /\ codecPc = "packed"
    /\ ReadUInt32BE(wire, 1) # UInt32(n)
    /\ wire' = SubSeq(wire, 1, 1) \o WriteUInt32BE(n) \o SubSeq(wire, 6, Len(wire))
    /\ UNCHANGED <<toPack, chunks, emitted, codecPc>>

\* The frame arrives in one piece and is unpacked
UnpackWhole ==
    /\ codecPc = "packed"
    /\ emitted' = <<unpack(wire)>>
    /\ codecPc' = "whole"
    /\ UNCHANGED <<toPack, wire, chunks>>

\* The frame arrives in two pieces, cut after byte k
Split(k) ==
    /\ codecPc = "packed"
    /\ chunks' = <<SubSeq(wire, 1, k), SubSeq(wire, k + 1, Len(wire))>>
    /\ codecPc' = "split"
    /\ UNCHANGED <<toPack, wire, emitted>>

\* The next piece is unpacked as it arrives
UnpackChunk ==
    /\ codecPc = "split"
    /\ emitted' = Append(emitted, unpack(Head(chunks)))
    /\ chunks' = Tail(chunks)
    /\ codecPc' = IF Len(chunks) = 1 THEN "fed" ELSE "split"
    /\ UNCHANGED <<toPack, wire>>

\* max_frame_size of the configuration: the largest content pack makes here
MaxFrameSize == 2 * MaxContentLen

\* A step of the codec alone
OnlyCodec == UNCHANGED <<serverVars, fifoVars, listener, listens, decoderVars, clientVars, setupVars, roomVars, poolVars>>

NextCodec ==
    \/ Pack /\ OnlyCodec
    \/ Declare(MaxFrameSize + 1) /\ OnlyCodec
    \/ UnpackWhole /\ OnlyCodec
    \/ \E k \in 1..(Len(wire) - 1) : Split(k) /\ OnlyCodec
    \/ UnpackChunk /\ OnlyCodec

SpecCodec == InitCodec /\ [][NextCodec]_vars

----------------------------------------------------------------------------
(* The accumulating decoder of
   src/ComputerScience/Networking/Bytes and Bits/Buffer and Binary Operators.md
   (lines 39-52): one connection, its dataBuffer, the messages it logs *)

\* The size of a message: dataBuffer.slice(0, 4)
FrameLen == 4

\* The bytes the peer sends in all
MaxStream == 9

ByteValues == {1, 2}

\* The chunks a data event can bring when n more bytes are to come
Chunks(n) == UNION { [1..k -> ByteValues] : k \in 1..n }

\* Buffer.concat(list)
RECURSIVE BufferConcat(_)
BufferConcat(list) ==
    IF list = <<>> THEN <<>> ELSE Head(list) \o BufferConcat(Tail(list))

\* The while loop with > in place of >=
RECURSIVE DrainStrict(_, _)
DrainStrict(buf, out) ==
    IF Len(buf) > FrameLen
    THEN DrainStrict(Slice(buf, FrameLen, Len(buf)), Append(out, Slice(buf, 0, FrameLen)))
    ELSE [dataBuffer |-> buf, logged |-> out]

\* while (dataBuffer.length >= 4) { slice(0, 4); slice(4); console.log }
RECURSIVE Drain(_, _)
Drain(buf, out) ==
    IF Len(buf) >= FrameLen
    THEN Drain(Slice(buf, FrameLen, Len(buf)), Append(out, Slice(buf, 0, FrameLen)))
    ELSE [dataBuffer |-> buf, logged |-> out]

\* socket.on("data", (chunk) => ...)
OnData(c) ==
    /\ chunk' = c
    /\ received' = received \o c
    /\ LET after == Drain(BufferConcat(<<dataBuffer, c>>), logged)
       IN  /\ dataBuffer' = after.dataBuffer
           /\ logged' = after.logged

\* let dataBuffer = Buffer.alloc(0)
InitDecoder ==
    /\ variant = "chat"
    /\ ServerStart
    /\ FifoOff
    /\ CodecOff
    /\ Listening
    /\ dataBuffer = <<>>
    /\ logged = <<>>
    /\ received = <<>>
    /\ chunk = <<>>
    /\ ClientOff
    /\ SetupOff
    /\ RoomsOff
    /\ PoolOff

NextDecoder ==
    \E c \in Chunks(MaxStream - Len(received)) :
        OnData(c) /\ UNCHANGED <<serverVars, fifoVars, codecVars, listener, listens, clientVars, setupVars, roomVars, poolVars>>

SpecDecoder == InitDecoder /\ [][NextDecoder]_vars

----------------------------------------------------------------------------
(* The two servers of src/Experiments/TCP/networkProgram.js: `variant` is
   "nested" for the one of lines 3-17, whose server.listen call stands inside
   the connection callback, and "toplevel" for the one of lines 113-130 *)

\* socket.write("Data received: " + data)
DataReceivedMsg(s, d) == Msg("DataReceived", s, <<>>, d)

\* net.createServer callback
NPConnect(s) ==
    /\ event' = Ev("connect", s, <<>>, FALSE)
    /\ variant \in {"nested", "toplevel"}
    /\ listener = "listening"
    /\ status[s] = "idle"
    /\ NextToAccept(s)
    /\ status' = [status EXCEPT ![s] = "open"]
    /\ listens' = IF variant = "nested" THEN listens + 1 ELSE listens
    /\ written' = NoWrites
    /\ attempted' = {}
    /\ UNCHANGED <<variant, clients, username, heartbeat, idle, stalled, listener>>

\* socket.on("data"): log; the nested server also writes the data back
NPData(s, d) ==
    /\ event' = Ev("data", s, d, FALSE)
    /\ variant \in {"nested", "toplevel"}
    /\ status[s] = "open"
    /\ IF variant = "nested"
       THEN /\ written' = WriteAll(NoWrites, status, {s}, DataReceivedMsg(s, d))
            /\ attempted' = {s}
       ELSE /\ written' = NoWrites
            /\ attempted' = {}
    /\ UNCHANGED <<variant, status, clients, username, heartbeat, idle, stalled,
                   listener, listens>>

\* The peer sent FIN (socket.on("end") of the nested server only logs)
NPEnd(s) ==
    /\ event' = Ev("end", s, <<>>, FALSE)
    /\ variant \in {"nested", "toplevel"}
    /\ status[s] = "open"
    /\ status' = [status EXCEPT ![s] = "ended"]
    /\ written' = NoWrites
    /\ attempted' = {}
    /\ UNCHANGED <<variant, clients, username, heartbeat, idle, stalled,
                   listener, listens>>

\* socket.on("error") logs; the nested server has no handler for it, the
\* error is thrown and the process ends
NPError(s) ==
    /\ event' = Ev("error", s, <<>>, FALSE)
    /\ variant \in {"nested", "toplevel"}
    /\ status[s] \in {"open", "ended"}
    /\ status' = [status EXCEPT ![s] = "destroyed"]
    /\ listener' = IF variant = "nested" THEN "exited" ELSE listener
    /\ written' = NoWrites
    /\ attempted' = {}
    /\ UNCHANGED <<variant, clients, username, heartbeat, idle, stalled, listens>>

\* The state once the script has run: only the second server has listened
InitListen ==
    /\ variant \in {"nested", "toplevel"}
    /\ status = [s \in Sockets |-> "idle"]
    /\ clients = <<>>
    /\ username = [s \in Sockets |-> <<>>]
    /\ written = NoWrites
    /\ attempted = {}
    /\ heartbeat = [s \in Sockets |-> FALSE]
    /\ idle = [s \in Sockets |-> 0]
    /\ stalled = [s \in Sockets |-> FALSE]
    /\ IF variant = "nested"
       THEN listener = "created" /\ listens = 0
                                /\ event = Ev("createServer", 0, <<>>, FALSE)
       ELSE listener = "listening" /\ listens = 1
                                  /\ event = Ev("listen", 0, <<>>, FALSE)
    /\ FifoOff
    /\ CodecOff
    /\ DecoderOff
    /\ ClientOff
    /\ SetupOff
    /\ RoomsOff
    /\ PoolOff

ServerRuns == listener # "exited" /\ UNCHANGED <<fifoVars, codecVars, decoderVars, clientVars, setupVars, roomVars, poolVars>>

NextListen ==
    \E s \in Sockets :
        \/ NPConnect(s) /\ ServerRuns
        \/ \E d \in {BlankLine, ChatLine} : NPData(s, d) /\ ServerRuns
        \/ NPEnd(s) /\ ServerRuns
        \/ NPError(s) /\ ServerRuns
        \/ Close(s) /\ ServerRuns /\ UNCHANGED <<listener, listens>>

SpecListen == InitListen /\ [][NextListen]_vars

----------------------------------------------------------------------------
(* The heartbeat server together with the client of lines 248-269, which
   answers PING with PONG. One client is followed: the bytes of every write
   the server makes to its socket wait in clientIn until a data event of the
   client takes them, one write or several at a time *)

\* The client followed: the first connection
Follow == 1

\* The PING writes to the followed client, and the writes it has not read
MaxPings == 2
MaxInFlight == 2

\* socket.write("PING"), client.write("PONG"), client.write("Hello from client!")
PingText == <<"P", "I", "N", "G">>
PongText == <<"P", "O", "N", "G">>
HelloText ==
    <<"H", "e", "l", "l", "o", " ", "f", "r", "o", "m", " ", "c", "l",
    "i", "e", "n", "t", "!">>

\* The texts of the other writes of the server
InvalidText ==
    <<"I", "n", "v", "a", "l", "i", "d", " ", "m", "e", "s", "s", "a",
    "g", "e", " ", "r", "e", "c", "e", "i", "v", "e", "d", "\n">>
BroadcastPrefix ==
    <<"B", "r", "o", "a", "d", "c", "a", "s", "t", " ", "f", "r", "o",
    "m", " ", "s", "e", "r", "v", "e", "r", ":", " ">>
ReceivedPrefix ==
    <<"S", "e", "r", "v", "e", "r", " ", "r", "e", "c", "e", "i", "v",
    "e", "d", ":", " ">>

\* The bytes of one write of the server
Bytes(m) ==
    CASE m.kind = "PING" -> PingText
      [] m.kind = "Invalid" -> InvalidText
      [] m.kind = "Broadcast" -> BroadcastPrefix \o m.text \o <<"\n">>
      [] m.kind = "Received" -> ReceivedPrefix \o m.text \o <<"\n">>

CountPings(msgs) == Len(SelectSeq(msgs, LAMBDA m : m.kind = "PING"))

\* What a handler of the server leaves for the followed client, and what the
\* client wrote that the handler consumed; the client writes its greeting in
\* its connect callback
ClientLog ==
    /\ clientIn' = clientIn \o [i \in 1..Len(written'[Follow]) |->
                                   Bytes(written'[Follow][i])]
    /\ Len(clientIn') <= MaxInFlight
    /\ pingsSent' = pingsSent + CountPings(written'[Follow])
    /\ pingsSent' <= MaxPings
    /\ clientOut' = IF event'.socket = Follow /\ event'.op = "connect"
                    THEN Append(clientOut, HelloText)
                    ELSE IF event'.socket = Follow /\ event'.op = "data"
                    THEN Tail(clientOut)
                    ELSE clientOut
    /\ UNCHANGED <<pongsSent, fifoVars, codecVars, listener, listens, decoderVars,
                   setupVars, roomVars, poolVars>>

\* What the server reads next from s: the followed client's oldest write, a
\* line of chat from any other peer
PingPongInput(s) ==
    IF s # Follow THEN {ChatLine}
    ELSE IF clientOut = <<>> THEN {} ELSE {Head(clientOut)}

\* client.on("data") for a chunk that holds the k oldest writes: PONG if
\* the trimmed chunk is exactly "PING"
ClientData(k) ==
    /\ status[Follow] = "open"
    /\ k \in 1..Len(clientIn)
    /\ LET data == BufferConcat(SubSeq(clientIn, 1, k))
           message == Trim(data)
       IN  IF message = PingText
           THEN /\ clientOut' = Append(clientOut, PongText)
                /\ pongsSent' = pongsSent + 1
           ELSE UNCHANGED <<clientOut, pongsSent>>
    /\ clientIn' = SubSeq(clientIn, k + 1, Len(clientIn))
    /\ UNCHANGED <<pingsSent, serverVars, fifoVars, codecVars, listener, listens,
                   decoderVars, setupVars, roomVars, poolVars>>

InitPingPong ==
    /\ variant = "hb"
    /\ ServerStart
    /\ FifoOff
    /\ CodecOff
    /\ Listening
    /\ DecoderOff
    /\ clientIn = <<>>
    /\ clientOut = <<>>
    /\ pingsSent = 0
    /\ pongsSent = 0
    /\ SetupOff
    /\ RoomsOff
    /\ PoolOff

NextPingPong ==
    \/ \E s \in Sockets :
          \/ HBConnect(s) /\ ClientLog
          \/ \E d \in PingPongInput(s) : HBData(s, d) /\ ClientLog
          \/ HBPing(s) /\ ClientLog
          \/ HBEnd(s) /\ ClientLog
    \/ \E k \in 1..MaxInFlight : ClientData(k)

SpecPingPong == InitPingPong /\ [][NextPingPong]_vars

----------------------------------------------------------------------------
(* setupHeartbeat of src/ComputerScience/Networking/TCP/TCP.md (221-243),
   called for every socket that connects: `variant` is "setup" *)

\* The chunks a peer sends: "ping", "pong", anything else
LowerPing == <<"p", "i", "n", "g">>
LowerPong == <<"p", "o", "n", "g">>
SetupChunks == {LowerPing, LowerPong, ChatLine}

\* socket.write("ping"), socket.write("pong")
LowerPingMsg == Msg("ping", 0, <<>>, <<>>)
LowerPongMsg == Msg("pong", 0, <<>>, <<>>)

\* setupHeartbeat(socket): setInterval(...), let awaitingPong = false
SetupHeartbeat(s) ==
    /\ event' = Ev("connect", s, <<>>, FALSE)
    /\ variant = "setup"
    /\ status[s] = "idle"
    /\ NextToAccept(s)
    /\ status' = [status EXCEPT ![s] = "open"]
    /\ heartbeat' = [heartbeat EXCEPT ![s] = TRUE]
    /\ awaitingPong' = [awaitingPong EXCEPT ![s] = FALSE]
    /\ written' = NoWrites
    /\ attempted' = {}
    /\ UNCHANGED <<variant, clients, username, idle, stalled>>

\* The setInterval callback: socket.write("ping")
IntervalTick(s) ==
    /\ event' = Ev("ping", s, <<>>, FALSE)
    /\ variant = "setup"
    /\ heartbeat[s]
    /\ written' = WriteAll(NoWrites, status, {s}, LowerPingMsg)
    /\ attempted' = {s}
    /\ UNCHANGED <<variant, status, clients, username, heartbeat, idle, stalled,
                   awaitingPong>>

\* socket.on("data"): answer "ping" with "pong"; "pong" clears awaitingPong
SetupData(s, d) ==
    /\ event' = Ev("data", s, d, FALSE)
    /\ variant = "setup"
    /\ status[s] = "open"
    /\ IF d = LowerPing
       THEN /\ written' = WriteAll(NoWrites, status, {s}, LowerPongMsg)
            /\ attempted' = {s}
       ELSE /\ written' = NoWrites
            /\ attempted' = {}
    /\ awaitingPong' = IF d = LowerPong
                       THEN [awaitingPong EXCEPT ![s] = FALSE]
                       ELSE awaitingPong
    /\ UNCHANGED <<variant, status, clients, username, heartbeat, idle, stalled>>

\* socket.on("end"): clearInterval(interval)
SetupEnd(s) ==
    /\ event' = Ev("end", s, <<>>, FALSE)
    /\ variant = "setup"
    /\ status[s] = "open"
    /\ status' = [status EXCEPT ![s] = "ended"]
    /\ heartbeat' = [heartbeat EXCEPT ![s] = FALSE]
    /\ written' = NoWrites
    /\ attempted' = {}
    /\ UNCHANGED <<variant, clients, username, idle, stalled, awaitingPong>>

InitSetup ==
    /\ variant = "setup"
    /\ ServerStart
    /\ FifoOff
    /\ CodecOff
    /\ Listening
    /\ DecoderOff
    /\ ClientOff
    /\ awaitingPong = [s \in Sockets |-> FALSE]
    /\ RoomsOff
    /\ PoolOff

OnlySetup ==
    UNCHANGED <<fifoVars, codecVars, listener, listens, decoderVars, clientVars,
                roomVars, poolVars>>

NextSetup ==
    \E s \in Sockets :
        \/ SetupHeartbeat(s) /\ OnlySetup
        \/ IntervalTick(s) /\ OnlySetup
        \/ \E d \in SetupChunks : SetupData(s, d) /\ OnlySetup
        \/ SetupEnd(s) /\ OnlySetup
        \/ variant = "setup" /\ Close(s) /\ OnlySetup /\ UNCHANGED awaitingPong

SpecSetup == InitSetup /\ [][NextSetup]_vars

----------------------------------------------------------------------------
(* The multi-room chat server: ChatRoom.broadcast and the /join command *)

\* The /join commands of a run: of all connections together, and of the one
\* connection that joins again and again
MaxJoins == 4
MaxRejoins == 6

\* messageHistory.slice(-10): how many entries a join replays
RecentCount == 10

\* `[${timestamp}] 👋 ${username} left the room`, of connection s
LeftMsg(s) == Msg("Left", s, <<>>, <<>>)
\* `[${timestamp}] 🎉 ${username} joined the room`, of connection s
JoinedMsg(s) == Msg("Joined", s, <<>>, <<>>)
\* `📜 Recent messages in ${roomName}:`
RecentMsg(r) == Msg("Recent", 0, <<>>, <<r>>)

\* array.slice(-n): the last n elements, all of them when there are fewer
SliceLast(arr, n) ==
    SubSeq(arr, (IF Len(arr) > n THEN Len(arr) - n ELSE 0) + 1, Len(arr))

\* ChatRoom.broadcast, the history: messageHistory.push(formattedMessage)
HistoryPush(h, r, m) == [h EXCEPT ![r] = Append(@, m)]

\* The /join command forgetting currentRoom.clients.delete(socket)
LeaveRoomKeeps(rc, old, s) == rc

\* currentRoom.clients.delete(socket)
LeaveRoom(rc, old, s) == [rc EXCEPT ![old] = MapDelete(@, s)]

\* The connection callback: currentRoom = null
RoomsConnect(s) ==
    /\ event' = Ev("connect", s, <<>>, FALSE)
    /\ variant \in {"rooms", "history"}
    /\ status[s] = "idle"
    /\ NextToAccept(s)
    /\ status' = [status EXCEPT ![s] = "open"]
    /\ currentRoom' = [currentRoom EXCEPT ![s] = "null"]
    /\ written' = NoWrites
    /\ attempted' = {}
    /\ UNCHANGED <<variant, clients, username, heartbeat, idle, stalled>>
    /\ UNCHANGED <<rooms, roomClients, messageHistory, joins>>

\* commands["/join"](roomName) of connection s: leave the old room, enter
\* the new one, then replay the recent history to the joiner
Join(s, r) ==
    LET old == currentRoom[s]
        had == old # "null"
        h1 == IF had THEN HistoryPush(messageHistory, old, LeftMsg(s))
                     ELSE messageHistory
        w1 == IF had
              THEN WriteAll(NoWrites, status,
                            BroadcastTargets(roomClients[old], s), LeftMsg(s))
              ELSE NoWrites
        a1 == IF had THEN BroadcastTargets(roomClients[old], s) ELSE {}
        c1 == IF had THEN LeaveRoom(roomClients, old, s) ELSE roomClients
        c2 == [c1 EXCEPT ![r] = MapSet(@, s)]
        h2 == HistoryPush(h1, r, JoinedMsg(s))
        w2 == WriteAll(w1, status, BroadcastTargets(c2[r], s), JoinedMsg(s))
        recent == SliceLast(h2[r], RecentCount)
    IN  /\ event' = Ev("join", s, <<old, r>>, had)
        /\ variant \in {"rooms", "history"}
        /\ status[s] = "open"
        /\ rooms' = IF r \in Range(rooms) THEN rooms ELSE Append(rooms, r)
        /\ roomClients' = c2
        /\ messageHistory' = h2
        /\ currentRoom' = [currentRoom EXCEPT ![s] = r]
        /\ written' = [w2 EXCEPT ![s] =
                          IF Writable(status, s)
                          THEN w2[s] \o <<RecentMsg(r)>> \o recent
                          ELSE w2[s]]
        /\ attempted' = a1 \cup BroadcastTargets(c2[r], s) \cup {s}
        /\ joins' = joins + 1
        /\ UNCHANGED <<variant, status, clients, username, heartbeat, idle,
                       stalled>>

InitRooms ==
    /\ variant = "rooms"
    /\ ServerStart
    /\ FifoOff
    /\ CodecOff
    /\ Listening
    /\ DecoderOff
    /\ ClientOff
    /\ SetupOff
    /\ RoomsOff
    /\ PoolOff

OnlyRooms ==
    UNCHANGED <<fifoVars, codecVars, listener, listens, decoderVars, clientVars,
                setupVars, poolVars>>

NextRooms ==
    \/ \E s \in Sockets : RoomsConnect(s) /\ OnlyRooms
    \/ \E s \in Sockets, r \in RoomNames :
           joins < MaxJoins /\ Join(s, r) /\ OnlyRooms

SpecRooms == InitRooms /\ [][NextRooms]_vars

\* One connection joining again and again, the others only connected
InitHistory ==
    /\ variant = "history"
    /\ ServerStart
    /\ FifoOff
    /\ CodecOff
    /\ Listening
    /\ DecoderOff
    /\ ClientOff
    /\ SetupOff
    /\ RoomsOff
    /\ PoolOff

NextHistory ==
    \/ \E s \in Sockets : RoomsConnect(s) /\ OnlyRooms
    \/ \E r \in RoomNames : joins < MaxRejoins /\ Join(Follow, r) /\ OnlyRooms

SpecHistory == InitHistory /\ [][NextHistory]_vars

----------------------------------------------------------------------------
(* The connection pool: acquire() runs up to its await, is suspended while
   the connection is created, and resumes in a later step; release() runs
   to completion *)

\* new ConnectionPool({ max }): the most connections the pool is to hold
PoolMax == 2

\* [...this.connections].find((conn) => !conn.inUse): the first in Set order
Available ==
    IF \E i \in 1..Len(connections) : connections[i] \notin inUse
    THEN connections[CHOOSE i \in 1..Len(connections) :
                         /\ connections[i] \notin inUse
                         /\ \A j \in 1..(i - 1) : connections[j] \in inUse]
    ELSE 0

\* this.connections.size < this.max, read before the await
UnderMax == Len(connections) < PoolMax

\* acquire(), up to the return, the await or the queued promise
Acquire(c) ==
    /\ caller[c] = "idle"
    /\ IF Available # 0
       THEN /\ inUse' = inUse \cup {Available}
            /\ held' = [held EXCEPT ![c] = Available]
            /\ caller' = [caller EXCEPT ![c] = "holding"]
            /\ UNCHANGED waiting
       ELSE IF UnderMax
       THEN /\ caller' = [caller EXCEPT ![c] = "creating"]
            /\ UNCHANGED <<inUse, held, waiting>>
       ELSE /\ waiting' = Append(waiting, c)
            /\ caller' = [caller EXCEPT ![c] = "waiting"]
            /\ UNCHANGED <<inUse, held>>
    /\ UNCHANGED <<connections, created>>

\* acquire(), after `await this.createConnection()`: add the new connection
\* to the pool, mark it in use and return it
AcquireCreated(c) ==
    LET conn == created + 1
    IN  /\ caller[c] = "creating"
        /\ created' = conn
        /\ connections' = Append(connections, conn)
        /\ inUse' = inUse \cup {conn}
        /\ held' = [held EXCEPT ![c] = conn]
        /\ caller' = [caller EXCEPT ![c] = "holding"]
        /\ UNCHANGED waiting

\* release(connection) by the caller that holds it: clear inUse, or hand the
\* connection to the first queued waiter
Release(c) ==
    LET connection == held[c]
    IN  /\ caller[c] = "holding"
        /\ IF Len(waiting) > 0
           THEN LET next == Head(waiting)
                IN  /\ waiting' = Tail(waiting)
                    /\ inUse' = (inUse \ {connection}) \cup {connection}
                    /\ held' = [held EXCEPT ![c] = 0, ![next] = connection]
                    /\ caller' = [caller EXCEPT ![c] = "idle",
                                                ![next] = "holding"]
           ELSE /\ inUse' = inUse \ {connection}
                /\ held' = [held EXCEPT ![c] = 0]
                /\ caller' = [caller EXCEPT ![c] = "idle"]
                /\ UNCHANGED waiting
        /\ UNCHANGED <<connections, created>>

InitPool ==
    /\ variant = "pool"
    /\ ServerStart
    /\ FifoOff
    /\ CodecOff
    /\ Listening
    /\ DecoderOff
    /\ ClientOff
    /\ SetupOff
    /\ RoomsOff
    /\ PoolOff

OnlyPool ==
    UNCHANGED <<serverVars, fifoVars, codecVars, listener, listens, decoderVars,
                clientVars, setupVars, roomVars>>

NextPool ==
    \/ \E c \in Callers : Acquire(c) /\ OnlyPool
    \/ \E c \in Callers : AcquireCreated(c) /\ OnlyPool
    \/ \E c \in Callers : Release(c) /\ OnlyPool

SpecPool == InitPool /\ [][NextPool]_vars

----------------------------------------------------------------------------
(* The chat server fed chunks that do not hold exactly one line each *)

\* A data event that carries two complete lines
TwoLines == <<"a", "\n", "b", "\n">>

\* A line that arrives in two data events
HalfLine == <<"a">>
RestOfLine == <<"b", "\n">>

LineChunks == {TwoLines, HalfLine, RestOfLine}

InitLines ==
    /\ variant = "chat"
    /\ ServerStart
    /\ FifoOff
    /\ CodecOff
    /\ DecoderOff
    /\ ClientOff
    /\ SetupOff
    /\ RoomsOff
    /\ PoolOff
    /\ Listening

NextLines ==
    \E s \in Sockets :
        \/ ChatConnect(s) /\ OnlyServer
        \/ \E d \in LineChunks : ChatData(s, d) /\ OnlyServer
        \/ ChatEnd(s) /\ OnlyServer

SpecLines == InitLines /\ [][NextLines]_vars

----------------------------------------------------------------------------
(* Notions the properties share *)

\* The registered connections whose socket is open in both directions
Active == { c \in Range(clients) : status[c] = "open" }

\* The writes of the last handler include a message of this kind from s
Wrote(kind, s) ==
    \E c \in Sockets : \E i \in 1..Len(written[c]) :
        written[c][i].kind = kind /\ written[c][i].from = s

\* The last handler ran for this event on socket s
Handled(op, s) == event.op = op /\ event.socket = s

----------------------------------------------------------------------------
(* C1: Broadcast exclusion. A chat message from a registered, open connection
   x is written exactly once to each of the other active connections and to
   no one else; without echo (chat variant) x itself gets nothing, with echo
   (heartbeat variant) x gets exactly one confirmation, a message distinct
   from the broadcast. *)
BroadcastExclusion ==
    \A x \in Sockets :
        (Handled("data", x) /\ x \in Active) =>
            /\ (variant = "chat" /\ event.named) =>
                  \A c \in Sockets :
                     written[c] = IF c \in Active \ {x}
                                  THEN <<ChatMsg(x, username[x], Trim(event.data))>>
                                  ELSE <<>>
            /\ (variant = "hb" /\ Trim(event.data) # <<>>) =>
                  \A c \in Sockets :
                     written[c] = IF c \in Active \ {x}
                                  THEN <<BroadcastMsg(x, Trim(event.data))>>
                                  ELSE IF c = x
                                  THEN <<ReceivedMsg(x, Trim(event.data))>>
                                  ELSE <<>>

\* A named connection sent chat while another connection was active
BroadcastExclusionWitness ==
    \E x \in Sockets :
        /\ variant = "chat"
        /\ Handled("data", x) /\ event.named
        /\ x \in Active
        /\ Cardinality(Active) >= 3
        /\ Wrote("Chat", x)

----------------------------------------------------------------------------
(* C2: End-to-end scenario. With A and B both connected and named (alice,
   bob), a message A sends is written to B as one chat message tagged with
   A's name and nothing is written to A; when B then disconnects (end), A is
   written one Leave notice carrying B's name. *)
EndToEnd ==
    \A A \in Sockets : \A B \in Sockets \ {A} :
        (variant = "chat" /\ username[A] # <<>> /\ username[B] # <<>>) =>
            /\ (Handled("data", A) /\ event.named /\ {A, B} \subseteq Active) =>
                  /\ written[B] = <<ChatMsg(A, username[A], Trim(event.data))>>
                  /\ written[A] = <<>>
            /\ (Handled("end", B) /\ event.named /\ A \in Active) =>
                  written[A] = <<LeaveMsg(B, username[B])>>

\* B, named differently from A, has disconnected and A was told
EndToEndWitness ==
    /\ variant = "chat"
    /\ Handled("end", 2) /\ event.named
    /\ 1 \in Active
    /\ username[1] = <<"a">> /\ username[2] = <<"b">>
    /\ status[3] = "open" /\ written[3] = <<>>
    /\ written[1] = <<LeaveMsg(2, <<"b">>)>>

----------------------------------------------------------------------------
(* C3: The first message of a connection (the one it sends while it is not
   registered) is adopted as its name, registers it, is announced by exactly
   one Join to every active connection and is not written to anyone as chat;
   every later message is forwarded as Chat tagged with that name. *)
FirstMessageNames ==
    [][\A x \in Sockets : \A d \in DataSet :
        ChatData(x, d) =>
            IF x \notin Range(clients)
            THEN /\ username'[x] = Trim(d)
                 /\ x \in Range(clients')
                 /\ \A c \in Sockets :
                       /\ c \in Active' \ {x} => written'[c] = <<JoinMsg(x, Trim(d))>>
                       /\ \A i \in 1..Len(written'[c]) : written'[c][i].kind # "Chat"
            ELSE /\ username'[x] = username[x]
                 /\ \A c \in Sockets :
                       written'[c] = IF c \in Active \ {x}
                                     THEN <<ChatMsg(x, username[x], Trim(d))>>
                                     ELSE <<>>
      ]_vars

----------------------------------------------------------------------------
(* C4: Once a name has been recorded for a connection (it is registered in
   the clients map) no later message of that connection changes the name or
   causes another Join, whatever the first message was. *)
NameImmutable ==
    [][\A x \in Sockets : \A d \in DataSet :
        (ChatData(x, d) /\ x \in Range(clients)) =>
            /\ username'[x] = username[x]
            /\ \A c \in Sockets : \A i \in 1..Len(written'[c]) :
                  written'[c][i].kind # "Join"
      ]_vars

----------------------------------------------------------------------------
(* C5: A connection that disconnects (end or error) while it has no username
   causes no write to any connection, so no Leave is broadcast for it. *)
NoLeaveWhileAwaitingName ==
    \A x \in Sockets :
        ((Handled("end", x) \/ Handled("error", x)) /\ ~event.named) =>
            \A c \in Sockets : written[c] = <<>>

\* An unnamed connection ended while a named one was active to hear of it
NoLeaveWhileAwaitingNameWitness ==
    \E x \in Sockets :
        /\ variant = "chat"
        /\ Handled("end", x) /\ ~event.named
        /\ username[x] = <<>>
        /\ Active # {}

----------------------------------------------------------------------------
(* C6: Every named connection that leaves the registry, by any close path
   (end, error, timeout), has exactly one Leave written for it to each of the
   remaining active connections. *)
LeaveOnEveryClosePath ==
    [][\A x \in Sockets :
        (variant = "chat" /\ HasName(x)
            /\ x \in Range(clients) /\ x \notin Range(clients')) =>
            \A c \in Active' : written'[c] = <<LeaveMsg(x, username[x])>>
      ]_vars

----------------------------------------------------------------------------
(* C7: Heartbeat eviction. When the 60 s inactivity timeout of a connection
   has fired, the connection is out of the registry and a Leave for it has
   been written to every remaining active connection, with no further action
   of the peer. *)
HeartbeatEviction ==
    \A x \in Sockets :
        Handled("timeout", x) =>
            /\ x \notin Range(clients)
            /\ \A c \in Active : \E i \in 1..Len(written[c]) :
                  written[c][i].kind = "Leave" /\ written[c][i].from = x

----------------------------------------------------------------------------
(* C8: Concurrent join/leave. Whatever the interleaving of connects, ends and
   errors, the registry holds no entry of a closed connection, and every
   connection of the heartbeat variant that is still open is still in it. *)
RegistryExact ==
    \A x \in Sockets :
        /\ x \in Range(clients) => status[x] \notin {"ended", "destroyed"}
        /\ (variant = "hb" /\ status[x] \in {"open", "halfclosed"}) =>
              x \in Range(clients)

----------------------------------------------------------------------------
(* C9: close is idempotent. Running the cleanup of a connection a second
   time (an error event after its end event) leaves the registry as the first
   run left it. *)
CloseIdempotent ==
    [][\A x \in Sockets :
        (status[x] = "ended" /\ (variant = "hb" \/ HasName(x))
            /\ (HBError(x) \/ ChatError(x))) =>
            clients' = clients
      ]_vars

----------------------------------------------------------------------------
(* C10: Registry liveness invariant. Every connection present in the registry
   has a socket that is open for reading and writing: a connection leaves the
   registry before its socket is ended or released, never after. *)
RegistryLive ==
    \A x \in Range(clients) : status[x] = "open"

----------------------------------------------------------------------------
(* C11: Iteration tolerates removal. A broadcast of the heartbeat variant
   visits the registry as it stands when the data event arrives: every entry
   but the sender once, in order, also when a write of the loop fails and so
   triggers the removal of that entry; every live registered connection other
   than the sender gets the message exactly once, none is skipped. *)
IterationTolerant ==
    \A x \in Sockets :
        variant = "hb" =>
            /\ ForEach(clients, x, 0, Len(clients))
                  = SelectSeq(clients, LAMBDA c : c # x)
            /\ (Handled("data", x) /\ Trim(event.data) # <<>>) =>
                  \A c \in Active \ {x} :
                     written[c] = <<BroadcastMsg(x, Trim(event.data))>>

\* A broadcast wrote to an entry whose write fails (the timeout handler has
\* ended it) and then to a live entry that comes later in the array
IterationTolerantWitness ==
    \E x \in Sockets : \E f \in Range(clients) \ {x} : \E r \in Active \ {x} :
        /\ variant = "hb"
        /\ Handled("data", x) /\ Trim(event.data) # <<>>
        /\ status[f] = "halfclosed"
        /\ IndexOf(clients, f) < IndexOf(clients, r)
        /\ written[f] = <<>>
        /\ written[r] = <<BroadcastMsg(x, Trim(event.data))>>

----------------------------------------------------------------------------
(* C12: Capacity. With a non-zero max_connections the registry never holds
   more than max_connections entries: a connection that arrives while the
   registry is full is rejected and never inserted. *)

\* max_connections of the configuration, set to one less than the number of
\* connections that arrive
MaxConnections == NumSockets - 1

Capacity ==
    MaxConnections # 0 => Len(clients) <= MaxConnections

----------------------------------------------------------------------------
(* C13: Broadcast failure isolation. When a broadcast writes to a registered
   recipient f whose write fails (its writable side is ended or released) or
   whose peer is slow (stalled), every other live registered connection but
   the sender still gets the message exactly once from the same handler; the
   failed write puts nothing on f, and the failure is recorded on f alone, as
   the 'error' event of its own socket. *)
FailureIsolated ==
    \A x \in Sockets : \A f \in Range(clients) \ {x} :
        (/\ Handled("data", x)
         /\ status[f] # "open" \/ stalled[f]
         /\ IF variant = "hb" THEN Trim(event.data) # <<>> ELSE event.named) =>
            /\ \A c \in Active \ {x} :
                  written[c] = IF variant = "hb"
                               THEN <<BroadcastMsg(x, Trim(event.data))>>
                               ELSE <<ChatMsg(x, username[x], Trim(event.data))>>
            /\ status[f] # "open" => written[f] = <<>>
            /\ status[f] \in {"halfclosed", "ended"} =>
                  ENABLED (HBError(f) \/ ChatError(f))

\* A broadcast went through a full registry whose first entry had been ended
\* by the timeout handler: the live entry after it still got the message
FailureIsolatedWitness ==
    \E x \in Sockets : \E f \in Range(clients) \ {x} : \E r \in Active \ {x} :
        /\ variant = "hb"
        /\ Handled("data", x) /\ Trim(event.data) # <<>>
        /\ Len(clients) = NumSockets
        /\ status[f] = "halfclosed" /\ IndexOf(clients, f) = 0
        /\ ~stalled[r]
        /\ written[r] = <<BroadcastMsg(x, Trim(event.data))>>
        /\ ENABLED HBError(f)

----------------------------------------------------------------------------
(* C14: Slow-consumer isolation. The outbound data pending on a connection
   never exceeds the outbound buffer cap: when the peer of c is stalled and
   the last handler has already queued as many messages on c as the cap
   allows, a further send to c does not enqueue. *)

\* outbound_buffer_cap of the configuration, in messages
OutboundCap == 1

SlowConsumerCapped ==
    [][\A c \in Sockets :
        (stalled[c] /\ stalled'[c] /\ Len(written[c]) >= OutboundCap) =>
            written'[c] = <<>>
      ]_vars

----------------------------------------------------------------------------
(* C15: FIFO per sender-recipient pair. The chat messages of sender S that
   are written to the socket of recipient R are in the order S sent them,
   none twice, whatever other senders, joins and leaves come in between. *)
FifoPerPair ==
    /\ \A i \in 1..Len(stream) : Number(stream[i]) \in 1..sent
    /\ \A i \in 1..Len(stream) : \A j \in 1..Len(stream) :
          i < j => Number(stream[i]) < Number(stream[j])

\* R got two chat lines of S in order, and the last handler was another
\* connection's: its chat, its join or its leave came after
FifoPerPairWitness ==
    /\ Len(stream) >= 2
    /\ event.socket \notin {Sender, Recipient}
    /\ event.op \in {"data", "end"}
    /\ written[Recipient] # <<>>

----------------------------------------------------------------------------
(* C16: Codec round trip. Unpacking the frame that pack made of a message
   gives back the type and the content of that message. *)
RoundTrip ==
    (codecPc = "whole" /\ wire = pack(toPack.type, toPack.content)) =>
        emitted = <<Unpacked(toPack.type, toPack.content)>>

----------------------------------------------------------------------------
(* C17: Partial-frame resilience. A frame handed to the decoder in two
   pieces, cut at any byte, gives the one message the whole frame gives: no
   message comes out of the first piece alone, and once both pieces are in,
   the messages that came out are exactly that one. *)
PartialFrame ==
    LET out == SelectSeq(emitted, LAMBDA r : r.kind = "message")
    IN  /\ (codecPc = "split" /\ Len(chunks) = 1) => out = <<>>
        /\ codecPc = "fed" => out = <<unpack(wire)>>

----------------------------------------------------------------------------
(* C18: Oversized-length rejection. Decoding a frame whose length field
   declares more than max_frame_size gives a FrameTooLarge error, not a
   message, and the decoder does not wait for the declared content. *)
OversizedRejected ==
    (codecPc = "whole" /\ Above(ReadUInt32BE(wire, 1), MaxFrameSize)) =>
        \A i \in 1..Len(emitted) : emitted[i].kind = "FrameTooLarge"

----------------------------------------------------------------------------
(* C19: Graceful shutdown terminates. From the shutdown signal on the server
   accepts no connection and every connection has been told to close, so that
   the server can release the port and exit although the clients do not
   disconnect on their own: after the signal no socket is left open by the
   server. *)
ShutdownClosesAll ==
    listener # "listening" =>
        \A s \in Sockets : status[s] \in {"idle", "halfclosed", "ended", "destroyed"}

----------------------------------------------------------------------------
(* C20: Error containment. A socket error on connection x takes x, and only
   x, out of the registry and touches no other connection: the other entries
   stay registered, in place, with their sockets as they were, so they keep
   getting later broadcasts. *)
ErrorContained ==
    [][\A x \in Sockets :
        (HBError(x) \/ ChatError(x)) =>
            /\ clients' = MapDelete(clients, x)
            /\ \A c \in Sockets \ {x} : status'[c] = status[c]
      ]_vars

----------------------------------------------------------------------------
(* C21: Closed is terminal. Once the socket of a connection is closed and
   the connection is out of the registry, no later event puts it back and no
   later handler writes a Chat, Join, Leave or broadcast that comes from it. *)
ClosedIsTerminal ==
    [][\A x \in Sockets :
        (status[x] \in {"ended", "destroyed"} /\ x \notin Range(clients)) =>
            /\ x \notin Range(clients')
            /\ status'[x] \in {"ended", "destroyed"}
            /\ \A c \in Sockets : \A i \in 1..Len(written'[c]) :
                  written'[c][i].from = x =>
                      written'[c][i].kind \notin {"Chat", "Join", "Leave", "Broadcast"}
      ]_vars

\* A named connection that had ended and left the registry got one more
\* event, its close, while another connection was there to hear of it
ClosedIsTerminalWitness ==
    \E x \in Sockets :
        /\ variant = "chat"
        /\ Handled("close", x) /\ HasName(x)
        /\ x \notin Range(clients)
        /\ Active # {}

----------------------------------------------------------------------------
(* C22: Only bytes received from the peer refresh the inactivity timer of a
   connection. On a connection that stays open the time counted towards the
   60 s timeout goes down only in the data handler of that connection, and
   a heartbeat period in which the server wrote its PING to the connection
   counts in full. *)
OnlyInboundRefreshes ==
    [][\A x \in Sockets :
        status'[x] = "open" =>
            /\ idle'[x] < idle[x] => Handled("data", x)'
            /\ Handled("ping", x)' =>
                  (idle'[x] > idle[x] \/ idle[x] = TimeoutPeriods)
      ]_vars

----------------------------------------------------------------------------
(* C23: Remove, then announce. When the end handler of a named connection
   of the chat variant has run, the departure broadcast was made over the
   registry without that connection: the handler did not call write() on the
   socket that is leaving. *)
RemoveThenBroadcast ==
    \A x \in Sockets :
        (variant = "chat" /\ Handled("end", x) /\ event.named) =>
            x \notin attempted

----------------------------------------------------------------------------
(* C24: Heartbeat cancellation. A connection that has started closing, by
   end, by error or by the inactivity timeout, has no heartbeat interval any
   more, and the interval callback does not run for it. *)
HeartbeatCancelled ==
    \A x \in Sockets :
        status[x] \in {"halfclosed", "ended", "destroyed"} =>
            /\ ~heartbeat[x]
            /\ ~Handled("ping", x)

----------------------------------------------------------------------------
(* Line framing *)

\* The complete lines of a chunk, each with its terminator
RECURSIVE Lines(_)
Lines(d) ==
    IF \A i \in 1..Len(d) : d[i] # "\n"
    THEN <<>>
    ELSE LET k == CHOOSE i \in 1..Len(d) :
                    d[i] = "\n" /\ \A j \in 1..(i - 1) : d[j] # "\n"
         IN  <<SubSeq(d, 1, k)>> \o Lines(SubSeq(d, k + 1, Len(d)))

\* How many chat messages of x the last handler wrote to c
ChatsTo(c, x) ==
    Len(SelectSeq(written[c], LAMBDA m : m.kind = "Chat" /\ m.from = x))

(* C25: Line framing. The messages of a data event are the complete lines it
   carries, however the bytes are grouped: a new connection is named by the
   first complete line it sends, every other complete line is one chat
   message to each other registered connection, and bytes that do not end a
   line yet are no message. *)
LineFraming ==
    \A x \in Sockets :
        (variant = "chat" /\ Handled("data", x)) =>
            LET lines == Lines(event.data)
                k == Len(lines)
            IN  /\ ~event.named =>
                      IF k = 0 THEN ~HasName(x) ELSE username[x] = Trim(lines[1])
                /\ \A c \in Active \ {x} :
                      ChatsTo(c, x) = IF event.named THEN k
                                      ELSE IF k = 0 THEN 0 ELSE k - 1

----------------------------------------------------------------------------
(* C26: Accumulating decoder. After every data event the bytes left in
   dataBuffer are fewer than one message, every message logged is 4 bytes
   long, and the messages logged followed by dataBuffer are the bytes
   received, in order, whatever the chunks were. *)
AccumulatingDecoder ==
    /\ Len(dataBuffer) < FrameLen
    /\ \A i \in 1..Len(logged) : Len(logged[i]) = FrameLen
    /\ BufferConcat(logged) \o dataBuffer = received

\* Two messages are out, the second one closed by a chunk shorter than a
\* message that also left bytes behind
AccumulatingDecoderWitness ==
    /\ Len(logged) >= 2
    /\ Len(chunk) < FrameLen
    /\ dataBuffer # <<>>
    /\ Len(chunk) > Len(dataBuffer)

----------------------------------------------------------------------------
(* C27: The listening endpoint is bound exactly once, at startup. From the
   moment the script has run server.listen has been called once, and no
   connection handler calls it again. *)
BoundOnceAtStartup == listens = 1

----------------------------------------------------------------------------
(* C28: Message validation (heartbeat variant). For a message that is empty
   after trimming the data handler calls write() on the sender only, and what
   it writes is the "Invalid message received" response: no broadcast, no
   confirmation. For any other message it calls write() on every other
   registered client and on the sender; each of these whose socket can still
   be written gets exactly one message, the broadcast for the others and the
   confirmation for the sender. *)
MessageValidation ==
    \A x \in Sockets :
        (variant = "hb" /\ Handled("data", x)) =>
            LET m == Trim(event.data) IN
            IF m = <<>>
            THEN /\ attempted = {x}
                 /\ \A c \in Sockets :
                       written[c] = IF c = x /\ Writable(status, x)
                                    THEN <<InvalidMsg>> ELSE <<>>
            ELSE /\ attempted = Range(clients) \cup {x}
                 /\ \A c \in Sockets :
                       written[c] =
                           IF ~Writable(status, c) THEN <<>>
                           ELSE IF c = x THEN <<ReceivedMsg(x, m)>>
                           ELSE IF c \in Range(clients) THEN <<BroadcastMsg(x, m)>>
                           ELSE <<>>

\* A message of white space only came in while two other clients were
\* registered and open: the sender got the Invalid response
MessageValidationWitness ==
    \E x \in Sockets :
        /\ variant = "hb"
        /\ Handled("data", x)
        /\ event.data # <<>> /\ Trim(event.data) = <<>>
        /\ Cardinality(Active \ {x}) >= 2
        /\ written[x] = <<InvalidMsg>>

----------------------------------------------------------------------------
(* C29: Heartbeat control traffic is not chat. When the data handler of the
   server has run for a chunk that is the PONG of a client, it has written
   no broadcast of it to any connection and no confirmation of it to the
   sender. *)
PongIsNotChat ==
    \A x \in Sockets :
        (variant = "hb" /\ Handled("data", x) /\ Trim(event.data) = PongText) =>
            \A c \in Sockets : \A i \in 1..Len(written[c]) :
                written[c][i].kind \notin {"Broadcast", "Received"}

----------------------------------------------------------------------------
(* C30: Automated PONG response. Once the client, still connected, has read
   everything the server wrote to it, it has written one PONG for each PING
   the server wrote, however the writes were grouped into data events. *)
PingAnswered ==
    (status[Follow] = "open" /\ clientIn = <<>>) => pongsSent = pingsSent

----------------------------------------------------------------------------
(* C31: setupHeartbeat pong tracking. When the interval callback has sent a
   ping on an open socket, the socket is marked as awaiting a pong
   (awaitingPong is true), and it stays so until a "pong" arrives. *)
AwaitingAfterPing ==
    \A x \in Sockets :
        (variant = "setup" /\ Handled("ping", x) /\ status[x] = "open") =>
            awaitingPong[x]

----------------------------------------------------------------------------
(* C32: Registry naming invariant (chat variant). Every socket in the clients
   map has a non-empty username, and a socket is in the map exactly when it
   has a username and has neither ended nor failed. *)
RegistryNaming ==
    variant = "chat" =>
        \A x \in Sockets :
            /\ x \in Range(clients) => username[x] # <<>>
            /\ x \in Range(clients) <=>
                  (username[x] # <<>> /\ status[x] = "open")

----------------------------------------------------------------------------
(* C33: Multi-room membership. After any sequence of /join commands by any
   set of connections, each connection is in the clients map of at most one
   room, the room of its most recent /join. A /join writes the leave notice
   to the other members of the old room and the join notice to the other
   members of the new room, and the joining connection gets neither as a
   live broadcast: the first thing written to it is the history header. *)
MultiRoom ==
    variant = "rooms" =>
        \A x \in Sockets :
            /\ \A r \in RoomNames :
                   x \in Range(roomClients[r]) <=> currentRoom[x] = r
            /\ Handled("join", x) =>
                   LET old == event.data[1]
                       r == event.data[2]
                   IN  /\ currentRoom[x] = r
                       /\ written[x] # <<>>
                       /\ written[x][1] = RecentMsg(r)
                       /\ \A c \in Sockets \ {x} :
                              written[c] =
                                  (IF old # "null" /\ c \in Range(roomClients[old])
                                   THEN <<LeftMsg(x)>> ELSE <<>>)
                                  \o (IF c \in Range(roomClients[r])
                                      THEN <<JoinedMsg(x)>> ELSE <<>>)

\* A connection moves from a room with another member to a different room
\* with another member: one gets the leave notice, the other the join notice
MultiRoomWitness ==
    /\ variant = "rooms"
    /\ \E x \in Sockets :
           /\ Handled("join", x)
           /\ event.data[1] # "null"
           /\ event.data[1] # event.data[2]
           /\ \E c, d \in Sockets \ {x} :
                  /\ c \in Range(roomClients[event.data[1]])
                  /\ written[c] = <<LeftMsg(x)>>
                  /\ d \in Range(roomClients[event.data[2]])
                  /\ written[d] = <<JoinedMsg(x)>>
           /\ written[x][1] = RecentMsg(event.data[2])

----------------------------------------------------------------------------
(* C34: Recent-history bound. The messageHistory of a room never holds more
   than the entries a join replays, however many broadcasts the room has
   seen, and what a /join writes to the joining connection after the header
   is the at most 10 most recent entries of the room's history, in the order
   they were broadcast. *)
RecentHistory ==
    variant \in {"rooms", "history"} =>
        /\ \A r \in RoomNames : Len(messageHistory[r]) <= RecentCount
        /\ \A x \in Sockets :
               Handled("join", x) =>
                   /\ Len(Tail(written[x])) <= RecentCount
                   /\ Tail(written[x]) =
                          SliceLast(messageHistory[event.data[2]], RecentCount)

----------------------------------------------------------------------------
(* C35: ConnectionPool bound and exclusivity. Under any interleaving of
   acquire() and release() calls, with acquire suspended while a connection
   is created, the pool never holds more than max connections, no connection
   is held by two callers at once, and a release made while callers wait
   hands the connection to the caller queued first, which is the only way a
   queued caller gets a connection. *)
PoolBoundAndExclusive ==
    [][/\ Len(connections') <= PoolMax
       /\ \A c, d \in Callers :
              (c # d /\ held'[c] # 0) => held'[c] # held'[d]
       /\ \A c \in Callers :
              (caller[c] = "holding" /\ caller'[c] = "idle" /\ waiting # <<>>) =>
                  /\ waiting' = Tail(waiting)
                  /\ caller'[Head(waiting)] = "holding"
                  /\ held'[Head(waiting)] = held[c]
       /\ \A c \in Callers :
              (caller[c] = "waiting" /\ caller'[c] # "waiting") =>
                  /\ c = Head(waiting)
                  /\ \E d \in Callers :
                         /\ caller[d] = "holding"
                         /\ caller'[d] = "idle"
                         /\ held'[c] = held[d]]_vars

====
